---- MODULE Spec2Model ----
(***************************************************************************)
(* Timed quiz session subsystem of the quiz management frontend:           *)
(*   - SessionContext (sessionReducer, SessionProvider and its callbacks)  *)
(*   - useQuizSession / useAutoSave / useSessionPersistence hooks          *)
(*   - QuizTimer (local ticker, sync, time-up and warning effects)         *)
(*   - PublicQuizForm (participant form, auto submit, submit)              *)
(* The remote time authority is outside the repository; it is modelled     *)
(* from the contract of the specification (sections 3, 4.2 and 6).         *)
(*                                                                         *)
(* A request reaches the remote authority when it is issued; its response  *)
(* stays in flight in `pending` and is delivered later, in any order.      *)
(***************************************************************************)
EXTENDS Integers, FiniteSets, Sequences, TLC

\* ---------------------------------------------------------------- bounds
Duration == 31          \* time budget of the quiz, in seconds
MaxEvents == 3          \* ticks, clicks and periodic refreshes of one behaviour
MaxPending == 2         \* responses in flight at the same time
MaxTimeUp == 2          \* onTimeUp invocations that are counted
MaxLoads == 2           \* loads of the page
MaxWarn == 2            \* onWarning invocations counted per threshold
MaxMinutes == 11        \* largest remaining time of the warning policy runs

\* ------------------------------------------------------ program constants
NULL == -100            \* null of `remainingTimeSeconds: number | null`
PushEvery == 30         \* ticker pushes when newTimeSpent % 30 === 0
SecPerMin == 60         \* Math.ceil(currentRemainingSeconds / 60)
warningThresholds == {10, 5, 1}

NoToken == "none"       \* null sessionToken / absent localStorage item
Tok == "tok"            \* the token the remote authority issues
NoStatus == "none"      \* null sessionStatus
NoError == "none"       \* null error
Gone == "gone"          \* remote authority: the session has been invalidated

Max(a, b) == IF a >= b THEN a ELSE b
Truthy(n) == n /= NULL /\ n /= 0

\* ------------------------------------------------------------- the store
initialState ==
  [token |-> NoToken, status |-> NoStatus, ts |-> 0, rem |-> NULL,
   isExpired |-> FALSE, isLoading |-> FALSE, error |-> NoError]

sessionReducer(state, type, payload) ==
  CASE type = "SET_LOADING" -> [state EXCEPT !.isLoading = payload]
    [] type = "SET_ERROR"   -> [state EXCEPT !.error = payload, !.isLoading = FALSE]
    [] type = "SET_SESSION" ->
         [state EXCEPT !.token = payload.token, !.status = payload.status,
                       !.ts = payload.ts, !.rem = payload.rem,
                       !.isExpired = payload.isExpired,
                       !.isLoading = FALSE, !.error = NoError]
    [] type = "UPDATE_TIME" -> [state EXCEPT !.ts = payload.timeSpent,
                                             !.rem = payload.remaining]
    [] type = "SET_STATUS"  -> [state EXCEPT !.status = payload]
    [] type = "SET_EXPIRED" ->
         [state EXCEPT !.isExpired = payload,
                       !.status = IF payload THEN "EXPIRED" ELSE state.status]
    [] type = "CLEAR_SESSION" -> initialState
    [] OTHER -> state

\* ------------------------------------------------- the remote authority
NoSnap == [token |-> NoToken, status |-> NoStatus, ts |-> 0, rem |-> NULL,
           isExpired |-> FALSE]

\* getStatus(sessionToken): the canonical snapshot of the session; isExpired
\* is a field of its own, reported as soon as the time budget is used up
RemoteSnapshot(rStatus, rTs) ==
  [token |-> Tok, status |-> rStatus, ts |-> rTs,
   rem |-> Max(0, Duration - rTs),
   isExpired |-> (rStatus = "EXPIRED" \/ (rStatus = "ACTIVE" /\ rTs >= Duration))]

\* updateTime(sessionToken, seconds): state-setting, never decreasing
RemoteTimeAfter(rTs, seconds) == Max(rTs, seconds)
RemoteStatusAfterTime(rStatus, rTs2) ==
  IF rStatus = "ACTIVE" /\ rTs2 >= Duration THEN "EXPIRED" ELSE rStatus

\* the authority may record the EXPIRED status at once or later (lazy)
RemoteRecorded(st, rStatus, lazy) ==
  IF lazy /\ st = "EXPIRED" /\ rStatus /= "EXPIRED" THEN rStatus ELSE st

\* the authority has no live session for the token
RemoteUnknown(rStatus) == rStatus \in {NoStatus, Gone}

\* remote outcome of one call that reached the authority (net = the network
\* delivered the request); a call that fails leaves the authority unchanged
RemoteAccepts(op, rStatus, net) ==
  /\ net
  /\ CASE op = "start"      -> rStatus = NoStatus
       [] op = "getStatus"  -> ~RemoteUnknown(rStatus)
       [] op = "pause"      -> rStatus = "ACTIVE"
       [] op = "resume"     -> rStatus = "PAUSED"
       [] op = "complete"   -> rStatus \in {"ACTIVE", "PAUSED", "COMPLETED"}
       [] op = "updateTime" -> rStatus = "ACTIVE"
       [] OTHER -> FALSE

\* getStatus of a token the authority does not (or no longer) know is
\* answered with "session not found"
RemoteNotFound(op, rStatus, net) ==
  net /\ op = "getStatus" /\ RemoteUnknown(rStatus)

RemoteStatusAfter(op, rStatus, rTs, sec) ==
  CASE op = "start"      -> "ACTIVE"
    [] op = "pause"      -> "PAUSED"
    [] op = "resume"     -> "ACTIVE"
    [] op = "complete"   -> "COMPLETED"
    [] op = "updateTime" -> RemoteStatusAfterTime(rStatus, RemoteTimeAfter(rTs, sec))
    [] OTHER -> rStatus

RemoteSpentAfter(op, rTs, sec) ==
  CASE op = "start"      -> 0
    [] op = "updateTime" -> RemoteTimeAfter(rTs, sec)
    [] OTHER -> rTs

\* ------------------------------------------------------------ the state
VARIABLES
  store,        \* SessionState of the provider's reducer
  mounted,      \* the page is loaded and the mount effects have run
  page,         \* PublicQuizForm currentPage (0 = participant form)
  submitted,    \* PublicQuizForm submitted
  formLoading,  \* PublicQuizForm loading (a submit is running)
  local,        \* QuizTimer localTimeSpent
  warningsSent, \* QuizTimer warningsSent
  isPausing,    \* QuizTimer isPausing
  isResuming,   \* QuizTimer isResuming
  stored,       \* localStorage quiz_session_token
  progress,     \* localStorage quiz_progress_<id>: the saved currentPage
  rStatus,      \* remote authority: status of the session
  rTs,          \* remote authority: time spent
  pending,      \* responses in flight
  timeUpDue,    \* the time-up effect has fired onTimeUp, handler not yet run
  loads,        \* loads of the page so far
  timeUpCount,  \* onTimeUp invocations since the load
  warnCount,    \* onWarning invocations per threshold
  pausedRem,    \* stored remainingTimeSeconds when the session got PAUSED
  ticks,        \* ticks of the local ticker since the load
  clicks,       \* clicks of the participant since the load
  refreshes,    \* periodic refreshes since the load
  created,      \* sessionAPI.start has succeeded since the load
  events,       \* ticks, clicks and periodic refreshes so far
  leave         \* what handleBeforeUnload did when the page was last left

vars == <<store, mounted, page, submitted, formLoading, local, warningsSent,
          isPausing, isResuming, stored, progress, rStatus, rTs, pending,
          timeUpDue, loads, timeUpCount, warnCount, pausedRem, ticks,
          clicks, refreshes, created, events, leave>>

NoProgress == -1
NoLeave == [pushed |-> NULL, prompt |-> FALSE]
Terminal == {"COMPLETED", "EXPIRED"}

\* ----------------------------------------------------------- QuizTimer
CeilDiv(a, b) == (a + b - 1) \div b

currentRemainingSeconds_unclamped(s, loc) ==
  IF Truthy(s.rem) THEN s.rem - (loc - s.ts) ELSE NULL

currentRemainingSeconds(s, loc) ==
  IF Truthy(s.rem) THEN Max(0, s.rem - (loc - s.ts)) ELSE NULL

\* QuizTimer is rendered on the question pages of a quiz with a time limit
TimerShown(mnt, pg, sub) == mnt /\ pg >= 1 /\ ~sub
TimerMounted == TimerShown(mounted, page, submitted)

\* condition of the time-expiration effect
TimeUpCond(s, loc) ==
  currentRemainingSeconds(s, loc) = 0 /\ s.status = "ACTIVE" /\ ~s.isExpired

\* thresholds the warnings effect fires for in one run
WarningsFired_unmarked(s, loc, ws) ==
  LET cur == currentRemainingSeconds(s, loc) IN
  IF Truthy(cur) /\ s.status = "ACTIVE" /\ ~s.isExpired
  THEN {t \in warningThresholds : CeilDiv(cur, SecPerMin) <= t}
  ELSE {}

WarningsFired(s, loc, ws) ==
  LET cur == currentRemainingSeconds(s, loc) IN
  IF Truthy(cur) /\ s.status = "ACTIVE" /\ ~s.isExpired
  THEN {t \in warningThresholds : CeilDiv(cur, SecPerMin) <= t /\ t \notin ws}
  ELSE {}

\* sync effect: setLocalTimeSpent(timeSpentSeconds) when timeSpentSeconds changed
SyncLocal_skipped(old, new, loc) == loc

SyncLocal(old, new, loc) == IF new.ts /= old.ts THEN new.ts ELSE loc

\* token save effect of the provider, deps [state.sessionToken]
SaveToken(old, new, st) == IF new.token /= old.token THEN new.token ELSE st

Bump(n, cap) == IF n < cap THEN n + 1 ELSE n

\* One commit of the component tree: the new store s2, the ticker value loc2
\* and the form position, followed by the effects of QuizTimer.  When
\* timeSpentSeconds changed, the effects first run in the render that still
\* has the old localTimeSpent, then again after the sync effect.
Commit(s2, loc2, pg2, sub2, rendered) ==
  LET was   == TimerMounted
      now   == TimerShown(TRUE, pg2, sub2)
      loc0  == IF ~now THEN 0 ELSE IF ~was THEN s2.ts ELSE loc2
      ws0   == IF now /\ was THEN warningsSent ELSE {}
      f1    == IF now THEN WarningsFired(s2, loc0, ws0) ELSE {}
      loc1  == IF now /\ was THEN SyncLocal(store, s2, loc0) ELSE loc0
      f2    == IF now THEN WarningsFired(s2, loc1, ws0 \cup f1) ELSE {}
      curCh == currentRemainingSeconds(s2, loc1) /= currentRemainingSeconds(store, local)
  IN /\ store' = s2
     /\ page' = pg2
     /\ submitted' = sub2
     /\ local' = loc1
     /\ warningsSent' = ws0 \cup f1 \cup f2
     /\ warnCount' = [t \in warningThresholds |->
                        IF t \in f1 \cup f2 THEN Bump(warnCount[t], MaxWarn)
                        ELSE warnCount[t]]
     /\ timeUpDue' = (now /\ (rendered \/ curCh \/ ~was)
                          /\ (TimeUpCond(s2, loc0) \/ TimeUpCond(s2, loc1)))

\* ------------------------------------------------------------- requests
Msg(n, op, flow, ok, notFound, snap, sec, capRem, capExp, capSt) ==
  [n |-> n, op |-> op, flow |-> flow, ok |-> ok, notFound |-> notFound,
   snap |-> snap, sec |-> sec,
   capRem |-> capRem, capExp |-> capExp, capSt |-> capSt, stale |-> FALSE]

\* a refresh response has been applied while these pushes were in flight
MarkStale(ms) ==
  {IF k.op = "update" THEN [k EXCEPT !.stale = TRUE] ELSE k : k \in ms}


\* issue remote call rop; its response joins (pending \ drop)
Issue(rop, net, drop, op, flow, sec, capRem, capExp, capSt) ==
  \E lazy \in (IF rop = "updateTime" /\ RemoteTimeAfter(rTs, sec) >= Duration
               THEN BOOLEAN ELSE {FALSE}) :
  LET ok == RemoteAccepts(rop, rStatus, net)
      st == IF ok
            THEN RemoteRecorded(RemoteStatusAfter(rop, rStatus, rTs, sec), rStatus, lazy)
            ELSE rStatus
      t2 == IF ok THEN RemoteSpentAfter(rop, rTs, sec) ELSE rTs
      sn == IF ok /\ rop = "getStatus" THEN RemoteSnapshot(st, t2) ELSE NoSnap
      nf == RemoteNotFound(rop, rStatus, net)
      m(k) == Msg(k, op, flow, ok, nf, sn, sec, capRem, capExp, capSt)
      free == {k \in 1..MaxPending : m(k) \notin pending}
  IN /\ Cardinality(pending \ drop) < MaxPending
     /\ free /= {}
     /\ pending' = (pending \ drop) \cup {m(CHOOSE k \in free : \A j \in free : k <= j)}
     /\ rStatus' = st
     /\ rTs' = t2

NoIssue(drop) ==
  /\ pending' = pending \ drop
  /\ UNCHANGED <<rStatus, rTs>>

Dispatch(s, type, payload) == sessionReducer(s, type, payload)

\* catch block of startSession
StartFailed_cleared(s) ==
  Dispatch(Dispatch(s, "CLEAR_SESSION", NULL), "SET_ERROR", "Failed to start session")

StartFailed(s) == Dispatch(s, "SET_ERROR", "Failed to start session")

\* catch and finally blocks of pauseSession, resumeSession, completeSession
ForegroundFailed_silent(s, msg) == Dispatch(s, "SET_LOADING", FALSE)

ForegroundFailed(s, msg) ==
  Dispatch(Dispatch(s, "SET_ERROR", msg), "SET_LOADING", FALSE)

\* catch block of refreshSession and of updateTimeSpent: the failure is logged
BackgroundFailed_surfaced(s) == Dispatch(s, "SET_ERROR", "Failed to update time")

BackgroundFailed(s) == s

\* ---------------------------------------------------------------- Init
SavedSpent == {28, 29}

Init ==
  /\ store = initialState
  /\ mounted = FALSE
  /\ page = 0 /\ submitted = FALSE /\ formLoading = FALSE
  /\ local = 0 /\ warningsSent = {}
  /\ isPausing = FALSE /\ isResuming = FALSE
  /\ pending = {} /\ timeUpDue = FALSE /\ loads = 0
  /\ timeUpCount = 0
  /\ warnCount = [t \in warningThresholds |-> 0]
  /\ pausedRem = NULL /\ ticks = 0 /\ clicks = 0 /\ refreshes = 0 /\ created = FALSE
  /\ events = 0 /\ leave = NoLeave
  /\ \/ /\ stored = NoToken /\ rStatus = NoStatus /\ rTs = 0
        /\ progress = NoProgress
     \/ /\ stored = Tok
        /\ rStatus \in {"ACTIVE", NoStatus}
        /\ rTs \in SavedSpent
        /\ progress \in {NoProgress, 1}

\* the time-expiration effect has called onTimeUp = handleTimeExpiration and
\* the handler can run; it runs in the commit that fired it, before any other
\* callback
TimeUpRunnable ==
  /\ timeUpDue /\ mounted
  /\ timeUpCount < MaxTimeUp
  /\ Cardinality(pending) < MaxPending

\* ------------------------------------------------------- page lifecycle
\* first render and mount effects: useSessionPersistence (refreshSession is a
\* no-op without a token in the store), the provider's load effect, then its
\* save effect, which runs with sessionToken = null; the form restores the
\* saved page
Mount ==
  /\ ~TimeUpRunnable
  /\ ~mounted /\ loads < MaxLoads
  /\ mounted' = TRUE /\ loads' = loads + 1
  /\ LET pg == IF progress /= NoProgress THEN progress ELSE 0 IN
     IF stored /= NoToken /\ store.token = NoToken
     THEN /\ \E net \in BOOLEAN :
               Issue("getStatus", net, {}, "rehydrate", "none", 0,
                     NULL, FALSE, store.status)
          /\ Commit(Dispatch(store, "SET_LOADING", TRUE), local, pg, FALSE, TRUE)
     ELSE /\ NoIssue({})
          /\ Commit(store, local, pg, FALSE, TRUE)
  /\ stored' = NoToken
  /\ UNCHANGED <<formLoading, isPausing, isResuming, progress,
                 timeUpCount, pausedRem, ticks, clicks,
                 refreshes, created, events, leave>>

\* refreshSessionByToken, after the await
RehydrateResp ==
  \E m \in pending :
    /\ ~TimeUpRunnable
    /\ m.op = "rehydrate"
    /\ NoIssue({m})
    /\ LET s2 == IF m.ok THEN Dispatch(store, "SET_SESSION", m.snap)
                 ELSE Dispatch(store, "SET_ERROR", "Failed to restore session")
       IN /\ Commit(s2, local, page, submitted, TRUE)
          /\ stored' = IF m.ok THEN SaveToken(store, s2, stored) ELSE NoToken
    /\ UNCHANGED <<mounted, formLoading, isPausing, isResuming, progress,
                   loads, timeUpCount, pausedRem, ticks, clicks,
                 refreshes, created, events, leave>>

\* the page is closed or reloaded: handleBeforeUnload pushes the stored time
\* of an ACTIVE session and the page with all its in-memory state is gone;
\* localStorage and the remote session stay
Unload ==
  /\ ~TimeUpRunnable
  /\ mounted
  /\ mounted' = FALSE
  /\ leave' = IF store.status = "ACTIVE" /\ store.ts > 0
               THEN [pushed |-> IF store.token /= NoToken THEN store.ts ELSE NULL,
                     prompt |-> TRUE]
               ELSE NoLeave
  /\ IF store.status = "ACTIVE" /\ store.ts > 0 /\ store.token /= NoToken
     THEN \E net, lazy \in BOOLEAN :
            LET ok == RemoteAccepts("updateTime", rStatus, net) IN
            /\ rTs' = IF ok THEN RemoteSpentAfter("updateTime", rTs, store.ts) ELSE rTs
            /\ rStatus' = IF ok
                          THEN RemoteRecorded(
                                 RemoteStatusAfter("updateTime", rStatus, rTs, store.ts),
                                 rStatus, lazy)
                          ELSE rStatus
     ELSE UNCHANGED <<rStatus, rTs>>
  /\ store' = initialState
  /\ page' = 0 /\ submitted' = FALSE /\ formLoading' = FALSE
  /\ local' = 0 /\ warningsSent' = {}
  /\ isPausing' = FALSE /\ isResuming' = FALSE
  /\ pending' = {} /\ timeUpDue' = FALSE
  /\ pausedRem' = NULL /\ ticks' = 0 /\ timeUpCount' = 0
  /\ clicks' = 0 /\ refreshes' = 0 /\ created' = FALSE
  /\ UNCHANGED <<stored, progress, warnCount, loads, events>>

\* ------------------------------------------------------------ startSession
\* handleParticipantInfoSubmit -> initializeSession -> startSession, up to
\* the first await
SubmitParticipantInfo ==
  /\ ~TimeUpRunnable
  /\ mounted /\ page = 0 /\ ~submitted
  /\ events < MaxEvents /\ events' = events + 1 /\ clicks' = clicks + 1
  /\ \A m \in pending : m.op \notin {"start", "startStatus"}
  /\ \E net \in BOOLEAN : Issue("start", net, {}, "start", "none", 0,
        NULL, FALSE, store.status)
  /\ Commit(Dispatch(Dispatch(store, "SET_LOADING", TRUE), "SET_ERROR", NoError),
            local, page, submitted, TRUE)
  /\ UNCHANGED <<mounted, formLoading, isPausing, isResuming, stored, progress,
                 loads, timeUpCount, pausedRem, ticks, refreshes, created, leave>>

\* startSession after sessionAPI.start: the status fetch, or the catch block
StartResp ==
  \E m \in pending :
    /\ ~TimeUpRunnable
    /\ m.op = "start"
    /\ IF m.ok
       THEN /\ \E net \in BOOLEAN :
                 Issue("getStatus", net, {m}, "startStatus", "none", 0,
                       NULL, FALSE, store.status)
            /\ UNCHANGED <<store, page, submitted, local, warningsSent,
                           warnCount, timeUpDue>>
       ELSE /\ NoIssue({m})
            /\ Commit(StartFailed(store), local, page, submitted, TRUE)
    /\ UNCHANGED <<mounted, formLoading, isPausing, isResuming, stored, progress,
                   loads, timeUpCount, pausedRem, ticks, clicks,
                 refreshes, leave>>
    /\ created' = (created \/ m.ok)
    /\ UNCHANGED events

\* startSession after sessionAPI.getStatus; on success the form moves to the
\* first question page
StartStatusResp ==
  \E m \in pending :
    /\ ~TimeUpRunnable
    /\ m.op = "startStatus"
    /\ NoIssue({m})
    /\ LET s2 == IF m.ok THEN Dispatch(store, "SET_SESSION", m.snap)
                 ELSE StartFailed(store)
       IN /\ Commit(s2, local, IF m.ok THEN 1 ELSE page, submitted, TRUE)
          /\ stored' = SaveToken(store, s2, stored)
    /\ UNCHANGED <<mounted, formLoading, isPausing, isResuming, progress,
                   loads, timeUpCount, pausedRem, ticks, clicks,
                 refreshes, created, events, leave>>

\* ------------------------------------------------------------ local ticker
\* one run of the setInterval callback of QuizTimer
Tick ==
  /\ ~TimeUpRunnable
  /\ TimerMounted
  /\ store.status = "ACTIVE" /\ ~store.isExpired
  /\ events < MaxEvents /\ events' = events + 1
  /\ ticks' = ticks + 1
  /\ LET newTimeSpent == local + 1 IN
     /\ IF newTimeSpent % PushEvery = 0 /\ store.token /= NoToken
        THEN \E net \in BOOLEAN :
               Issue("updateTime", net, {}, "update", "ticker", newTimeSpent,
                     store.rem, FALSE, store.status)
        ELSE NoIssue({})
     /\ Commit(store, newTimeSpent, page, submitted, FALSE)
  /\ UNCHANGED <<mounted, formLoading, isPausing, isResuming, stored, progress,
                 loads, timeUpCount, pausedRem, clicks,
                 refreshes, created, leave>>

\* updateTimeSpent after the await; in handlePauseResume pauseSession follows
UpdateResp ==
  \E m \in pending :
    /\ ~TimeUpRunnable
    /\ m.op = "update"
    /\ LET remaining == IF Truthy(m.capRem) THEN Max(0, m.capRem - 1) ELSE 0
           s1 == IF m.ok
                 THEN Dispatch(store, "UPDATE_TIME",
                               [timeSpent |-> m.sec, remaining |-> remaining])
                 ELSE BackgroundFailed(store)
       IN IF m.flow = "pauseflow"
          THEN /\ \E net \in BOOLEAN :
                    Issue("pause", net, {m}, "pause", "pauseflow", 0,
                          NULL, FALSE, store.status)
               /\ Commit(Dispatch(s1, "SET_LOADING", TRUE), local, page, submitted, TRUE)
          ELSE /\ NoIssue({m})
               /\ Commit(s1, local, page, submitted, m.ok)
    /\ UNCHANGED <<mounted, formLoading, isPausing, isResuming, stored, progress,
                   loads, timeUpCount, pausedRem, ticks, clicks,
                 refreshes, created, events, leave>>

\* --------------------------------------------------------- periodic refresh
\* the provider's 30 second interval calls refreshSession
PeriodicRefresh ==
  /\ ~TimeUpRunnable
  /\ mounted
  /\ events < MaxEvents /\ events' = events + 1 /\ refreshes' = refreshes + 1
  /\ store.token /= NoToken /\ store.status = "ACTIVE"
  /\ \A m \in pending : ~(m.op = "refresh" /\ m.flow = "periodic")
  /\ \E net \in BOOLEAN :
       Issue("getStatus", net, {}, "refresh", "periodic", 0,
             NULL, store.isExpired, store.status)
  /\ UNCHANGED <<store, mounted, page, submitted, formLoading, local,
                 warningsSent, isPausing, isResuming, stored, progress,
                 timeUpDue, loads, timeUpCount, warnCount, pausedRem, ticks,
                 clicks, created, leave>>

\* refreshSession after the await; called from resumeSession, the finally
\* blocks of resumeSession and handlePauseResume follow
RefreshResp ==
  \E m \in pending :
    /\ ~TimeUpRunnable
    /\ m.op = "refresh"
    /\ pending' = (IF m.ok THEN MarkStale(pending \ {m}) ELSE pending \ {m})
    /\ UNCHANGED <<rStatus, rTs>>
    /\ LET s1 == IF m.ok THEN Dispatch(store, "SET_SESSION", m.snap)
                 ELSE BackgroundFailed(store)
           s2 == IF m.ok /\ m.snap.isExpired /\ ~m.capExp
                 THEN Dispatch(s1, "SET_EXPIRED", TRUE) ELSE s1
           s3 == IF m.flow = "resume" THEN Dispatch(s2, "SET_LOADING", FALSE) ELSE s2
       IN /\ Commit(s3, local, page, submitted, m.ok \/ m.flow = "resume")
          /\ stored' = SaveToken(store, s3, stored)
    /\ isResuming' = IF m.flow = "resume" THEN FALSE ELSE isResuming
    /\ isPausing' = IF m.flow = "resume" THEN FALSE ELSE isPausing
    /\ UNCHANGED <<mounted, formLoading, progress, loads, timeUpCount,
                   pausedRem, ticks, clicks,
                 refreshes, created, events, leave>>

\* ------------------------------------------------------------ pause / resume
\* `disabled` of the pause/resume button
ControlDisabled_never(pausing, resuming) == FALSE

ControlDisabled(pausing, resuming) == pausing \/ resuming

\* handlePauseResume up to its first await
ClickPauseResume ==
  /\ ~TimeUpRunnable
  /\ TimerMounted
  /\ events < MaxEvents /\ events' = events + 1 /\ clicks' = clicks + 1
  /\ ~store.isExpired /\ store.status /= "COMPLETED"
  /\ ~ControlDisabled(isPausing, isResuming)
  /\ store.status \in {"ACTIVE", "PAUSED"}
  /\ store.token /= NoToken
  /\ IF store.status = "ACTIVE"
     THEN /\ isPausing' = TRUE /\ isResuming' = isResuming
          /\ \E net \in BOOLEAN :
               Issue("updateTime", net, {}, "update", "pauseflow", local,
                     store.rem, FALSE, store.status)
          /\ UNCHANGED <<store, page, submitted, local, warningsSent, warnCount,
                         timeUpDue>>
     ELSE /\ isResuming' = TRUE /\ isPausing' = isPausing
          /\ \E net \in BOOLEAN :
               Issue("resume", net, {}, "resume", "none", 0, NULL, FALSE, store.status)
          /\ Commit(Dispatch(store, "SET_LOADING", TRUE), local, page, submitted, TRUE)
  /\ UNCHANGED <<mounted, formLoading, stored, progress, loads, timeUpCount,
                 pausedRem, ticks, refreshes, created, leave>>

\* pauseSession after the await, then the finally of handlePauseResume
PauseResp ==
  \E m \in pending :
    /\ ~TimeUpRunnable
    /\ m.op = "pause"
    /\ NoIssue({m})
    /\ LET s1 == IF m.ok THEN Dispatch(store, "SET_STATUS", "PAUSED")
                 ELSE ForegroundFailed(store, "Failed to pause session")
           s2 == Dispatch(s1, "SET_LOADING", FALSE)
       IN /\ Commit(s2, local, page, submitted, TRUE)
          /\ pausedRem' = IF m.ok THEN s2.rem ELSE pausedRem
    /\ isPausing' = FALSE /\ isResuming' = FALSE
    /\ UNCHANGED <<mounted, formLoading, stored, progress, loads, timeUpCount,
                 ticks, clicks,
                 refreshes, created, events, leave>>

\* resumeSession after sessionAPI.resume: SET_STATUS and the forced refresh,
\* or the catch and finally blocks
ResumeResp ==
  \E m \in pending :
    /\ ~TimeUpRunnable
    /\ m.op = "resume"
    /\ IF m.ok
       THEN /\ \E net \in BOOLEAN :
                 Issue("getStatus", net, {m}, "refresh", "resume", 0, NULL,
                       store.isExpired, store.status)
            /\ Commit(Dispatch(store, "SET_STATUS", "ACTIVE"), local, page,
                      submitted, TRUE)
            /\ UNCHANGED <<isPausing, isResuming>>
       ELSE /\ NoIssue({m})
            /\ Commit(ForegroundFailed(store, "Failed to resume session"),
                      local, page, submitted, TRUE)
            /\ isPausing' = FALSE /\ isResuming' = FALSE
    /\ UNCHANGED <<mounted, formLoading, stored, progress, loads, timeUpCount,
                 pausedRem, ticks, clicks,
                 refreshes, created, events, leave>>

\* ------------------------------------------------------ time-up and submit
\* handleTimeExpiration up to the await of completeSession
TimeUpEffect ==
  /\ TimeUpRunnable
  /\ timeUpCount' = timeUpCount + 1
  /\ IF store.token /= NoToken
     THEN /\ \E net \in BOOLEAN :
               Issue("complete", net, {}, "complete", "timeup", 0,
                     NULL, FALSE, store.status)
          /\ Commit(Dispatch(store, "SET_LOADING", TRUE), local, page, submitted, TRUE)
     ELSE /\ NoIssue({})
          /\ Commit(store, local, page, submitted, FALSE)
  /\ UNCHANGED <<mounted, formLoading, isPausing, isResuming, stored, progress,
                 loads, pausedRem, ticks, clicks,
                 refreshes, created, events, leave>>

\* completeSession after the await.  In handleTimeExpiration handleSubmit(true)
\* follows, whose closure still sees sessionStatus ACTIVE and calls
\* completeSession again; in handleSubmit the form becomes submitted and the
\* saved progress is removed
CompleteResp ==
  \E m \in pending :
    /\ ~TimeUpRunnable
    /\ m.op = "complete"
    /\ LET s1 == IF m.ok THEN Dispatch(store, "SET_STATUS", "COMPLETED")
                 ELSE ForegroundFailed(store, "Failed to complete session")
           s2 == Dispatch(s1, "SET_LOADING", FALSE)
       IN IF m.flow = "timeup"
          THEN /\ \E net \in BOOLEAN :
                    Issue("complete", net, {m}, "complete", "submit", 0,
                          NULL, FALSE, s2.status)
               /\ Commit(Dispatch(s2, "SET_LOADING", TRUE), local, page, submitted, TRUE)
               /\ formLoading' = TRUE
               /\ UNCHANGED progress
          ELSE /\ NoIssue({m})
               /\ Commit(s2, local, page, TRUE, TRUE)
               /\ formLoading' = FALSE
               /\ progress' = NoProgress
    /\ UNCHANGED <<mounted, isPausing, isResuming, stored, loads, timeUpCount,
                 pausedRem, ticks, clicks,
                 refreshes, created, events, leave>>

\* handleSubmit() from the submit button
ClickSubmit ==
  /\ ~TimeUpRunnable
  /\ mounted /\ page >= 1 /\ ~submitted
  /\ events < MaxEvents /\ events' = events + 1 /\ clicks' = clicks + 1
  /\ ~formLoading /\ store.status /= "PAUSED"
  /\ IF store.status = "ACTIVE" /\ store.token /= NoToken
     THEN /\ \E net \in BOOLEAN :
               Issue("complete", net, {}, "complete", "submit", 0,
                     NULL, FALSE, store.status)
          /\ Commit(Dispatch(store, "SET_LOADING", TRUE), local, page, submitted, TRUE)
          /\ formLoading' = TRUE
          /\ UNCHANGED progress
     ELSE /\ NoIssue({})
          /\ Commit(store, local, page, TRUE, TRUE)
          /\ formLoading' = FALSE
          /\ progress' = NoProgress
  /\ UNCHANGED <<mounted, isPausing, isResuming, stored, loads, timeUpCount,
                 pausedRem, ticks, refreshes, created, leave>>

\* performAutoSave (interval or manualSave) with the form's save function
AutoSave ==
  /\ ~TimeUpRunnable
  /\ mounted
  /\ store.status = "ACTIVE"
  /\ progress /= page
  /\ progress' = page
  /\ UNCHANGED <<store, mounted, page, submitted, formLoading, local,
                 warningsSent, isPausing, isResuming, stored, rStatus, rTs,
                 pending, timeUpDue, loads, timeUpCount, warnCount,
                 pausedRem, ticks, clicks,
                 refreshes, created, events, leave>>

\* manualSave from the save button of a question page: performAutoSave
\* returns at once unless the status is ACTIVE
ManualSave ==
  /\ ~TimeUpRunnable
  /\ mounted /\ page >= 1 /\ ~submitted
  /\ events < MaxEvents /\ events' = events + 1 /\ clicks' = clicks + 1
  /\ progress' = IF store.status = "ACTIVE" THEN page ELSE progress
  /\ UNCHANGED <<store, mounted, page, submitted, formLoading, local,
                 warningsSent, isPausing, isResuming, stored, rStatus, rTs,
                 pending, timeUpDue, loads, timeUpCount, warnCount,
                 pausedRem, ticks, refreshes, created, leave>>

\* the remote authority invalidates the session: its token is unknown from
\* now on (a session started afterwards would live under another token and is
\* not followed)
RemoteInvalidates ==
  /\ ~RemoteUnknown(rStatus)
  /\ events < MaxEvents /\ events' = events + 1
  /\ rStatus' = Gone /\ rTs' = 0
  /\ UNCHANGED <<store, mounted, page, submitted, formLoading, local,
                 warningsSent, isPausing, isResuming, stored, progress,
                 pending, timeUpDue, loads, timeUpCount, warnCount,
                 pausedRem, ticks, clicks, refreshes, created, leave>>

\* ------------------------------------------------------------------ Next
Next ==
  \/ Mount
  \/ Unload
  \/ RehydrateResp
  \/ SubmitParticipantInfo
  \/ StartResp
  \/ StartStatusResp
  \/ Tick
  \/ UpdateResp
  \/ PeriodicRefresh
  \/ RefreshResp
  \/ ClickPauseResume
  \/ PauseResp
  \/ ResumeResp
  \/ TimeUpEffect
  \/ CompleteResp
  \/ ClickSubmit
  \/ AutoSave
  \/ ManualSave
  \/ RemoteInvalidates

Spec == Init /\ [][Next]_vars

\* ------------------------------------------------ warning policy on its own
\* The warnings effect of QuizTimer under remaining times of the size of its
\* thresholds: the store receives snapshots whose remainingTimeSeconds is
\* drawn from WarnRemaining, the ticker runs, the page is reloaded.
WarnRemaining == {SecPerMin * m + d : m \in 0..(MaxMinutes - 1), d \in {1, SecPerMin}}

WarnSnapshot(r) ==
  [token |-> Tok, status |-> "ACTIVE", ts |-> 0, rem |-> r, isExpired |-> FALSE]

InitWarn ==
  /\ store = initialState
  /\ mounted = FALSE
  /\ page = 0 /\ submitted = FALSE /\ formLoading = FALSE
  /\ local = 0 /\ warningsSent = {}
  /\ isPausing = FALSE /\ isResuming = FALSE
  /\ pending = {} /\ timeUpDue = FALSE /\ loads = 0
  /\ timeUpCount = 0
  /\ warnCount = [t \in warningThresholds |-> 0]
  /\ pausedRem = NULL /\ ticks = 0 /\ clicks = 0 /\ refreshes = 0 /\ created = FALSE
  /\ events = 0 /\ leave = NoLeave
  /\ stored = Tok /\ rStatus = "ACTIVE" /\ rTs = 0 /\ progress = 1

\* load of the page on a question page and rehydration by a snapshot
WarnLoad ==
  /\ ~mounted /\ loads < MaxLoads
  /\ mounted' = TRUE /\ loads' = loads + 1
  /\ \E r \in WarnRemaining :
       Commit(Dispatch(store, "SET_SESSION", WarnSnapshot(r)), 0, progress, FALSE, TRUE)
  /\ UNCHANGED <<formLoading, isPausing, isResuming, stored, progress, rStatus,
                 rTs, pending, timeUpCount, pausedRem, ticks, clicks, refreshes,
                 created, events, leave>>

\* one run of the setInterval callback between two pushes
WarnTick ==
  /\ TimerMounted /\ store.status = "ACTIVE" /\ ~store.isExpired
  /\ events < MaxEvents /\ events' = events + 1 /\ ticks' = ticks + 1
  /\ (local + 1) % PushEvery /= 0
  /\ Commit(store, local + 1, page, submitted, FALSE)
  /\ UNCHANGED <<mounted, formLoading, isPausing, isResuming, stored, progress,
                 rStatus, rTs, pending, loads, timeUpCount, pausedRem, clicks,
                 refreshes, created, leave>>

\* one reconciliation step: refreshSession stores a new snapshot
WarnReconcile ==
  /\ mounted /\ store.token /= NoToken
  /\ \E r \in WarnRemaining :
       Commit(Dispatch(store, "SET_SESSION", WarnSnapshot(r)), local, page,
              submitted, TRUE)
  /\ UNCHANGED <<mounted, formLoading, isPausing, isResuming, stored, progress,
                 rStatus, rTs, pending, loads, timeUpCount, pausedRem, ticks,
                 clicks, refreshes, created, events, leave>>

\* the page is closed or reloaded
WarnUnload ==
  /\ mounted
  /\ mounted' = FALSE
  /\ store' = initialState
  /\ page' = 0 /\ local' = 0 /\ warningsSent' = {} /\ timeUpDue' = FALSE
  /\ ticks' = 0
  /\ UNCHANGED <<submitted, formLoading, isPausing, isResuming, stored,
                 progress, rStatus, rTs, pending, loads, timeUpCount, warnCount,
                 pausedRem, clicks, refreshes, created, events, leave>>

NextWarn ==
  \/ WarnLoad
  \/ WarnTick
  \/ WarnReconcile
  \/ WarnUnload

SpecWarn == InitWarn /\ [][NextWarn]_vars

\* --------------------------------------------- session without a time limit
\* The provider and the ticker under a session whose remainingTimeSeconds is
\* null: the page is loaded with such a session in the store, the ticker
\* runs and pushes the time, the acknowledgements are applied, the page is
\* left.
NoLimitSnapshot(t) ==
  [token |-> Tok, status |-> "ACTIVE", ts |-> t, rem |-> NULL, isExpired |-> FALSE]

InitNoLimit ==
  /\ store = initialState
  /\ mounted = FALSE
  /\ page = 0 /\ submitted = FALSE /\ formLoading = FALSE
  /\ local = 0 /\ warningsSent = {}
  /\ isPausing = FALSE /\ isResuming = FALSE
  /\ pending = {} /\ timeUpDue = FALSE /\ loads = 0
  /\ timeUpCount = 0
  /\ warnCount = [t \in warningThresholds |-> 0]
  /\ pausedRem = NULL /\ ticks = 0 /\ clicks = 0 /\ refreshes = 0 /\ created = FALSE
  /\ events = 0 /\ leave = NoLeave
  /\ stored = Tok /\ rStatus = "ACTIVE" /\ rTs \in SavedSpent /\ progress = 1

\* load of the page on a question page; the session is rebuilt from the
\* snapshot of the remote authority
NoLimitLoad ==
  /\ ~mounted /\ loads < MaxLoads
  /\ rStatus = "ACTIVE"
  /\ mounted' = TRUE /\ loads' = loads + 1
  /\ Commit(Dispatch(store, "SET_SESSION", NoLimitSnapshot(rTs)), 0, progress,
            FALSE, TRUE)
  /\ UNCHANGED <<formLoading, isPausing, isResuming, stored, progress, rStatus,
                 rTs, pending, timeUpCount, pausedRem, ticks, clicks, refreshes,
                 created, events, leave>>

NextNoLimit ==
  \/ NoLimitLoad
  \/ Tick
  \/ UpdateResp
  \/ ManualSave
  \/ Unload

SpecNoLimit == InitNoLimit /\ [][NextNoLimit]_vars

\* ================================================================ claims
\* effective remaining time before the clamp of currentRemainingSeconds
RawRemaining == store.rem - (local - store.ts)

\* C1: once the store's sessionStatus is COMPLETED or EXPIRED, no step of the
\* loaded page (no later call and no late response) changes it.
C1_TerminalAbsorbing ==
  [][(store.status \in Terminal /\ mounted') => store'.status = store.status]_vars

\* C2: within one load of the page onTimeUp is invoked at most once for the
\* session, however many ticks, store updates or re-renders observe
\* remaining = 0 before the status leaves ACTIVE.
C2_TimeUpOnce == timeUpCount <= 1

\* C3: the remaining time the timer shows, currentRemainingSeconds, is never
\* negative, also when the locally counted time exceeds the stored
\* remaining time.
C3_ShownNonNegative ==
  TimerMounted => (currentRemainingSeconds(store, local) = NULL
                     \/ currentRemainingSeconds(store, local) >= 0)

\* C3 witness: the timer is shown while the local drift exceeds the stored
\* remaining time, so the clamp is what keeps the shown value at 0.
C3_Witness ==
  TimerMounted /\ Truthy(store.rem) /\ RawRemaining < 0

\* C4: the stored remainingTimeSeconds is never negative, and no state in
\* which nothing is in flight keeps remaining time 0 with status ACTIVE or
\* PAUSED.
C4_ZeroMeansExpired ==
  /\ store.rem = NULL \/ store.rem >= 0
  /\ (mounted /\ store.rem = 0 /\ pending = {} /\ ~timeUpDue)
       => store.status \notin {"ACTIVE", "PAUSED"}

\* C5: a completeSession call made when the status is already COMPLETED leaves
\* the status COMPLETED and reports no error.
C5_CompleteIdempotent ==
  [][\A m \in pending :
       (m.op = "complete" /\ m.capSt = "COMPLETED" /\ m \notin pending'
          /\ mounted /\ mounted')
       => (store'.status = "COMPLETED" /\ store'.error = NoError)]_vars

C7_Rehydrates ==
  [][/\ \A m \in pending :
          (m.op = "rehydrate" /\ m.ok /\ m.snap.status = "ACTIVE"
             /\ m \notin pending' /\ mounted /\ mounted')
          => /\ store'.token = m.snap.token
             /\ store'.status = "ACTIVE"
             /\ store'.ts = m.snap.ts
             /\ TimerMounted' => local' = m.snap.ts
             /\ \A k \in pending' \ pending : k.op \notin {"start", "startStatus"}
     /\ (~mounted /\ mounted')
          => \A k \in pending' : k.op \notin {"start", "startStatus"}
     /\ (mounted' /\ clicks' = 0)
          => \A k \in pending' : k.op \notin {"start", "startStatus"}]_vars

\* C7 witness: a load without any click of the participant has rebuilt the
\* ACTIVE session of the remote authority and seeded the shown timer.
C7_Witness ==
  /\ mounted /\ clicks = 0 /\ ~created /\ pending = {}
  /\ store.token = Tok /\ store.status = "ACTIVE"
  /\ store.ts = rTs /\ rTs > 0
  /\ TimerMounted /\ local = rTs /\ ticks = 0

\* C8: the persisted token is removed only when the session completed
\* successfully or the remote authority does not know the session; a failed
\* refresh, the rehydration on mount included, leaves it in place.
C8_TokenKept ==
  [][(stored = Tok /\ stored' = NoToken)
       => (store'.status = "COMPLETED" \/ RemoteUnknown(rStatus))]_vars

\* C9: once the remote start call has created the session and the follow-up
\* status fetch has ended, whatever its outcome, the token is in the store
\* and under the storage key.
C9_TokenDurable ==
  (mounted /\ created /\ \A m \in pending : m.op \notin {"start", "startStatus"})
    => (store.token = Tok /\ stored = Tok)

\* C10: immediately after resumeSession and its forced refresh the effective
\* remaining time equals the remaining time R the session was paused with.
C10_PauseResumeKeepsRemaining ==
  [][\A m \in pending :
       (m.op = "refresh" /\ m.flow = "resume" /\ m.ok /\ m \notin pending'
          /\ mounted /\ mounted' /\ pausedRem /= NULL)
       => Max(0, store'.rem - (local' - store'.ts)) = pausedRem]_vars

\* the session fields of a store
SessionFields(s) == <<s.token, s.status, s.ts, s.rem, s.isExpired>>

\* C11: when startSession is rejected because the remote authority already
\* has an ACTIVE or PAUSED session, the error is surfaced, the session fields
\* already in the store are unchanged and the form stays on the participant
\* page.
C11_SecondStartRejected ==
  [][/\ \A k \in pending' \ pending :
          (k.op = "start" /\ rStatus \in {"ACTIVE", "PAUSED"})
          => (~k.ok /\ rStatus' = rStatus /\ rTs' = rTs)
     /\ \A m \in pending :
          (m.op = "start" /\ ~m.ok /\ m \notin pending' /\ mounted /\ mounted'
             /\ rStatus \in {"ACTIVE", "PAUSED"})
          => /\ store'.error /= NoError
             /\ SessionFields(store') = SessionFields(store)
             /\ page' = page /\ page' = 0
             /\ \A k \in pending' : k.op /= "startStatus"]_vars

\* C11 witness: a rehydrated ACTIVE session is in the store, the participant
\* has tried to start again and the start was rejected.
C11_Witness ==
  /\ mounted /\ page = 0 /\ clicks >= 1 /\ ~created
  /\ rStatus = "ACTIVE"
  /\ store.token = Tok /\ store.status = "ACTIVE" /\ store.ts = rTs
  /\ store.error = "Failed to start session"
  /\ \A m \in pending : m.op /= "start"

\* C12: while the session is ACTIVE and the timer stays mounted, localTimeSpent
\* never decreases, whatever store update is applied.
C12_LocalNonDecreasing ==
  [][(TimerMounted /\ TimerMounted' /\ store.status = "ACTIVE"
        /\ store'.status = "ACTIVE")
       => local' >= local]_vars

\* C13: while a session is in the store of a loaded page, its
\* timeSpentSeconds never decreases, in whatever order acknowledgements and
\* refresh responses are applied.
C13_TimeSpentNonDecreasing ==
  [][(mounted /\ mounted' /\ store.token /= NoToken /\ store'.token /= NoToken)
       => store'.ts >= store.ts]_vars

\* C14: once the status is COMPLETED or EXPIRED, no step of the loaded page
\* changes the stored timeSpentSeconds.
C14_TerminalTimeFrozen ==
  [][(mounted /\ mounted' /\ store.status \in Terminal) => store'.ts = store.ts]_vars

\* status a foreground operation moves the session to
ForegroundTarget(op) ==
  CASE op = "pause" -> "PAUSED" [] op = "resume" -> "ACTIVE" [] OTHER -> "COMPLETED"

\* C15: when the remote call of pauseSession, resumeSession or completeSession
\* fails, the store's error becomes a message, the status is unchanged,
\* isLoading is false again (unless the caller goes on with its next call) and
\* the pause button is released; when the call succeeds, also after an earlier
\* failure, the store takes the status of the operation.
C15_ForegroundFailure ==
  [][\A m \in pending :
       (m.op \in {"pause", "resume", "complete"} /\ m \notin pending'
          /\ mounted /\ mounted')
       => IF m.ok
          THEN store'.status = ForegroundTarget(m.op)
          ELSE /\ store'.error /= NoError
               /\ store'.status = store.status
               /\ store'.isLoading => pending' \ pending /= {}
               /\ m.op \in {"pause", "resume"} => (~isPausing' /\ ~isResuming')]_vars

\* C15 witness: a pause failed, the participant clicked again and the second
\* pause succeeded.
C15_Witness ==
  /\ mounted /\ pending = {} /\ clicks >= 2
  /\ store.status = "PAUSED" /\ rStatus = "PAUSED"
  /\ store.error = "Failed to pause session"
  /\ ~store.isLoading /\ ~isPausing

\* the response m in flight is handled in this step
Delivered(m) == \A k \in pending' : [k EXCEPT !.stale = m.stale] /= m

\* the ticker effect of QuizTimer has its interval running
TickerRuns == TimerMounted /\ store.status = "ACTIVE" /\ ~store.isExpired

\* C16: a failed periodic refreshSession or ticker-driven updateTimeSpent
\* changes nothing in the store (error and session fields included), leaves
\* localTimeSpent alone and does not stop a running ticker.
C16_BackgroundFailureSilent ==
  [][\A m \in pending :
       (/\ \/ m.op = "refresh" /\ m.flow = "periodic"
           \/ m.op = "update" /\ m.flow = "ticker"
        /\ ~m.ok /\ Delivered(m) /\ mounted /\ mounted')
       => /\ store' = store
          /\ local' = local
          /\ TickerRuns => TickerRuns']_vars

\* C16 witness: the push of the ticker at second 30 has failed and has been
\* answered: the store still holds the rehydrated values, no error is set and
\* the ticker runs.
C16_Witness ==
  /\ TickerRuns /\ pending = {} /\ clicks = 0 /\ refreshes = 0 /\ loads = 1
  /\ local = PushEvery /\ ticks >= 1 /\ local = store.ts + ticks
  /\ store.ts = rTs /\ store.error = NoError

\* effective remaining time of a session with a time limit
Effective(s, loc) == Max(0, s.rem - (loc - s.ts))

\* C17: while the session stays ACTIVE without pause or refresh, each tick
\* lowers the effective remaining time by one second (down to 0) and the
\* acknowledgement of a time push that arrives before the next tick leaves it
\* unchanged, so that after k ticks it is max(0, D - k).
C17_RemainingAfterTicks ==
  [][(/\ TickerRuns /\ TickerRuns' /\ store.rem /= NULL
      /\ clicks' = 0 /\ refreshes' = 0
      /\ \A m \in pending : m.op = "update" /\ m.sec = local)
       => Effective(store', local')
            = IF ticks' = ticks + 1 THEN Max(0, Effective(store, local) - 1)
              ELSE Effective(store, local)]_vars

\* C18: whenever a status pull (periodic refresh, post-resume refresh or
\* rehydration on mount) returns isExpired = true while the store's isExpired
\* is false, the store ends with isExpired = true and status EXPIRED.
C18_ExpiryPulled ==
  [][\A m \in pending :
       (m.op \in {"refresh", "rehydrate"} /\ m.ok /\ m.snap.isExpired
          /\ ~store.isExpired /\ m \notin pending' /\ mounted /\ mounted')
       => (store'.isExpired /\ store'.status = "EXPIRED")]_vars

\* C19: when the acknowledgement of a time push arrives after a refresh
\* response has been applied, the stored remainingTimeSeconds stays the one of
\* the refresh or is derived from it, not from the value the push captured
\* before the refresh.
C19_RefreshNotOverwritten ==
  [][\A m \in pending :
       (m.op = "update" /\ m.stale /\ m.ok /\ Delivered(m)
          /\ mounted /\ mounted' /\ store.rem /= NULL)
       => store'.rem \in {store.rem, Max(0, store.rem - 1)}]_vars

\* C20: no tick of the local ticker occurs between the acknowledgement of the
\* remote resume and the application of the post-resume refresh response.
C20_NoTickBeforeResumeRefresh ==
  [][(mounted /\ \E m \in pending : m.op = "refresh" /\ m.flow = "resume")
       => ticks' /= ticks + 1]_vars

\* C21: in every state of a loaded page that holds a session with a time
\* limit, the stored remainingTimeSeconds equals
\* max(0, durationSeconds - timeSpentSeconds), also after a successful
\* updateTimeSpent.
C21_RemainingMatchesSpent ==
  (mounted /\ store.token /= NoToken /\ store.rem /= NULL)
    => store.rem = Max(0, Duration - store.ts)

\* the response k in flight after this step belongs to a call made in it
Issued(k) == \A m \in pending : [m EXCEPT !.stale = k.stale] /= k

\* C22: the local ticker ticks, and pushes the time from a tick, only while
\* the timer is mounted, the status is ACTIVE, isExpired is false and the
\* local remaining time of a session with a time limit is above 0.
C22_TickOnlyWhileTimeLeft ==
  [][(ticks' = ticks + 1
        \/ \E k \in pending' : Issued(k) /\ k.op = "update" /\ k.flow = "ticker")
       => /\ ticks' = ticks + 1
          /\ TickerRuns
          /\ store.rem /= NULL => Effective(store, local) > 0]_vars

\* C23: when a status pull (periodic refresh, post-resume refresh or
\* rehydration) is answered with "session not found", the store is reset to
\* the no-session state with an error set and the stored token is removed
\* (a rehydration answer counts while no other session has been started).
C23_NotFoundClears ==
  [][\A m \in pending :
       (m.op \in {"refresh", "rehydrate"} /\ m.notFound /\ m \notin pending'
          /\ (m.op = "rehydrate" => store.token = NoToken)
          /\ mounted /\ mounted')
       => /\ SessionFields(store') = SessionFields(initialState)
          /\ store'.error /= NoError
          /\ stored' = NoToken]_vars

\* C24: whenever the page is left while the status is ACTIVE, the beforeunload
\* handler pushes the elapsed time to the remote authority and raises the
\* leave confirmation; when the status is not ACTIVE it does neither.
C24_UnloadPushesAndPrompts ==
  [][(mounted /\ ~mounted')
       => IF store.status = "ACTIVE"
          THEN leave'.prompt /\ leave'.pushed /= NULL
          ELSE ~leave'.prompt /\ leave'.pushed = NULL]_vars

\* responses in flight that belong to a pause or resume made from the timer
\* control: the push and pause of handlePauseResume, the resume and its
\* forced refresh
ControlInFlight(ms) ==
  {m \in ms : m.flow \in {"pauseflow", "resume"} \/ m.op = "resume"}

\* C25: at most one pause or resume made from the timer control is in flight;
\* while it has not settled isPausing or isResuming is true and the control
\* issues no second call; once it has settled, with or without success, both
\* flags are false.
C25_ControlSerialized ==
  [][/\ Cardinality(ControlInFlight(pending')) <= 1
     /\ mounted' =>
          ((isPausing' \/ isResuming') <=> ControlInFlight(pending') /= {})
     /\ (clicks' = clicks + 1 /\ \E k \in ControlInFlight(pending') : Issued(k))
          => (~isPausing /\ ~isResuming)]_vars

\* C25 witness: the participant has clicked resume; the forced refresh of
\* resumeSession is in flight and the control is disabled.
C25_Witness ==
  /\ TimerMounted /\ isResuming /\ ~isPausing /\ clicks >= 2
  /\ \E m \in pending : m.op = "refresh" /\ m.flow = "resume"
  /\ Cardinality(ControlInFlight(pending)) = 1

\* C26: a manual save of a question page writes the current page under the
\* per-quiz key whether or not the page holds a session and whatever the
\* session status is.
C26_SaveWhateverStatus ==
  [][ManualSave => progress' = page]_vars

\* C27: while the session stays ACTIVE, the effective remaining time the
\* timer shows does not increase in a tick of the ticker or when the
\* acknowledgement of a time push (the push before a pause included) is
\* applied and localTimeSpent is re-synchronised.
C27_RemainingNotRaisedByPush ==
  [][(/\ TickerRuns /\ TickerRuns' /\ store.rem /= NULL
      /\ \/ ticks' = ticks + 1
         \/ \E m \in pending : m.op = "update" /\ Delivered(m))
       => Effective(store', local') <= Effective(store, local)]_vars

\* C28: when the form of a page that holds a session becomes submitted, the
\* session status is COMPLETED; the form does not report the attempt as
\* finished, nor remove the saved progress, while the session is still ACTIVE
\* after a failed completeSession.
C28_SubmittedMeansCompleted ==
  [][(mounted /\ ~submitted /\ submitted' /\ store'.token /= NoToken)
       => store'.status = "COMPLETED"]_vars

\* error message of the catch block of a foreground operation
ForegroundError(op) ==
  CASE op = "pause" -> "Failed to pause session"
    [] op = "resume" -> "Failed to resume session"
    [] OTHER -> "Failed to complete session"

\* C29: when pauseSession or completeSession succeeds while the store still
\* shows the error of an earlier failed attempt of the same operation, the
\* error is null afterwards: PAUSED or COMPLETED is not shown together with
\* that error.
C29_RetryClearsError ==
  [][\A m \in pending :
       (m.op \in {"pause", "complete"} /\ m.ok /\ m \notin pending'
          /\ mounted /\ mounted' /\ store.error = ForegroundError(m.op))
       => store'.error = NoError]_vars

\* C30: the remainingTimeSeconds of a session without a time limit stays null
\* in every step that does not apply a snapshot of the remote authority; a
\* successful updateTimeSpent does not turn it into a number.
C30_NoLimitStaysNull ==
  [][(/\ mounted /\ mounted' /\ store.token /= NoToken /\ store.rem = NULL
      /\ ~\E m \in pending :
            m.op \in {"refresh", "rehydrate", "startStatus"} /\ Delivered(m))
       => store'.rem = NULL]_vars

====
